---- MODULE Spec2Model ----
(***************************************************************************)
(* Model of the two scripts of the repository.                             *)
(*                                                                         *)
(*   scripts/Country_mmdb.py : generate_mmdb / main.  Reads every          *)
(*       (network, data) entry of a source MMDB, keeps those whose         *)
(*       country iso_code is in the requested set, inserts each kept       *)
(*       network into an MMDBWriter and writes the writer to output_path.  *)
(*   scripts/ASN_generator.py : generate_multiple / generate_country_asn.  *)
(*       Fetches the ASN table of each requested country and rewrites      *)
(*       that country's list file.                                         *)
(*                                                                         *)
(* Addresses are Depth bits wide instead of 128; a network is the          *)
(* sequence of its prefix bits.  The reader, the writer and netaddr are    *)
(* packages the scripts import: they are modelled by the contract the      *)
(* calls in the scripts rely on (the reader yields the disjoint leaf       *)
(* networks of the source trie in address order; the writer resolves an    *)
(* address to the record of the longest inserted prefix covering it).      *)
(***************************************************************************)
EXTENDS Integers, Sequences, FiniteSets, TLC

VARIABLES
    \* ---- Country_mmdb.py ----
    countries,          \* argument `countries` of generate_mmdb (a list)
    pc,                 \* position inside main / generate_mmdb
    countries_set,      \* set(countries)
    source,             \* entries the reader has yielded so far, in order
    networks_to_write,  \* list of (str(network), data)
    stats,              \* per-country counters
    total,              \* number of entries scanned
    tree,               \* the MMDBWriter's search tree: set of <<network, data>>
    idx,                \* position of the insert loop in networks_to_write
    out_file,           \* what is stored at output_path
    result,             \* outcome of generate_mmdb
    exit_code,          \* exit status of main
    log,                \* messages printed so far (both scripts)
    \* ---- ASN_generator.py ----
    codes,              \* argument `country_codes` of generate_multiple
    apc,                \* position inside generate_multiple
    ai,                 \* index of the loop over codes
    asn_entries,        \* result of fetch_country_asns for the current code
    files,              \* file name -> content of the list file
    count,              \* value last returned by generate_country_asn
    history             \* one record per finished loop iteration (for the properties)

mmdb_vars == <<countries, pc, countries_set, source, networks_to_write, stats,
               total, tree, idx, out_file, result, exit_code>>
asn_vars  == <<codes, apc, ai, asn_entries, files, count, history>>
vars      == <<mmdb_vars, asn_vars, log>>

----------------------------------------------------------------------------
(* Bounds *)
Depth      == 2     \* address width in bits (128 in the real format)
MaxEntries == 2     \* number of entries the source database holds at most
MaxCodes   == 2     \* length of the list given to generate_multiple
MaxRows    == 1     \* rows of the fetched ASN table

----------------------------------------------------------------------------
(* Networks *)
Bits == {0, 1}

Networks == UNION {[1..l -> Bits] : l \in 1..Depth}

RECURSIVE Pow2(_)
Pow2(n) == IF n = 0 THEN 1 ELSE 2 * Pow2(n - 1)

RECURSIVE BitsValue(_)
BitsValue(n) ==
    IF Len(n) = 0 THEN 0 ELSE 2 * BitsValue(SubSeq(n, 1, Len(n) - 1)) + n[Len(n)]

\* first and last address of a network
Low(n)  == BitsValue(n) * Pow2(Depth - Len(n))
High(n) == Low(n) + Pow2(Depth - Len(n)) - 1

Addresses == 0..(Pow2(Depth) - 1)

Covers(n, a) == Low(n) <= a /\ a <= High(n)

IsPrefix(p, n) == Len(p) <= Len(n) /\ SubSeq(n, 1, Len(p)) = p

----------------------------------------------------------------------------
(* Records of the source database, as generate_mmdb inspects them *)
MkData(e, hc, hi, c) == [empty |-> e, has_country |-> hc, has_iso |-> hi, iso |-> c]

EmptyData     == MkData(TRUE, FALSE, FALSE, "")   \* None or {}
NoCountryData == MkData(FALSE, FALSE, FALSE, "")  \* a map without the key 'country'
NoIsoData     == MkData(FALSE, TRUE, FALSE, "")   \* data['country'] has no 'iso_code'
IsoData(c)    == MkData(FALSE, TRUE, TRUE, c)     \* data['country']['iso_code'] = c

RecordCodes == {"CN", "JP"}

Records == {EmptyData, NoCountryData, NoIsoData} \cup {IsoData(c) : c \in RecordCodes}

\* the lists of country codes a caller passes
CountryLists ==
    {<<>>, <<"CN">>, <<"CN", "CN">>, <<"CN", "HK">>, <<"">>, <<"CN", "">>}

Range(s) == {s[i] : i \in 1..Len(s)}

\* data['country'].get('iso_code', '')
country_code(data) == IF data.has_iso THEN data.iso ELSE ""

\* `not data or 'country' not in data`
NoCountry(data) == data.empty \/ ~data.has_country

----------------------------------------------------------------------------
(* str(network), IPNetwork(...), IPSet([...]), insert_network, lookup *)

\* str(network): the text "address/prefixlen"
str(n) == <<Low(n), Len(n)>>

\* IPNetwork(network_str)
IPNetwork(s) == [value |-> s[1], prefixlen |-> s[2]]

\* the prefix bits of a parsed network
CidrBits(ipn) ==
    [i \in 1..ipn.prefixlen |-> (ipn.value \div Pow2(Depth - i)) % 2]

Parent(n)  == SubSeq(n, 1, Len(n) - 1)
Sibling(n) == [i \in 1..Len(n) |-> IF i = Len(n) THEN 1 - n[i] ELSE n[i]]

\* netaddr merges the two halves of a network, longest prefixes first
RECURSIVE MergeLevel(_, _)
MergeLevel(S, l) ==
    IF l = 0 THEN S
    ELSE LET halves == {n \in S : Len(n) = l /\ Sibling(n) \in S}
         IN  MergeLevel((S \ halves) \cup {Parent(n) : n \in halves}, l - 1)

\* IPSet(list of IPNetwork): the minimal set of CIDRs covering the list
IPSet(nets) ==
    LET cidrs  == {CidrBits(x) : x \in nets}
        outer  == {c \in cidrs : ~\E d \in cidrs : d # c /\ IsPrefix(d, c)}
    IN  MergeLevel(outer, Depth)

\* writer.insert_network(ip_set, data): every CIDR of the set becomes a leaf
\* holding data, replacing what the tree held at or below it
insert_network(t, ip_set, data) ==
    {e \in t : ~\E c \in ip_set : IsPrefix(c, e[1])}
        \cup {<<c, data>> : c \in ip_set}

\* longest-prefix lookup in a written tree: <<>> is NoData, <<d>> a record
NoData == <<>>

Lookup(t, a) ==
    LET cov == {e \in t : Covers(e[1], a)}
    IN  IF cov = {} THEN NoData
        ELSE LET best == CHOOSE e \in cov : \A f \in cov : Len(f[1]) <= Len(e[1])
             IN  <<best[2]>>

----------------------------------------------------------------------------
(* Files at output_path *)
OldDb == {<<(<<0>>), IsoData("JP")>>}

FileAbsent      == [state |-> "absent",   db |-> {}]
FileOld         == [state |-> "complete", db |-> OldDb]
FilePartial     == [state |-> "partial",  db |-> {}]
FileComplete(t) == [state |-> "complete", db |-> t]

ProgressEvery == 500000

----------------------------------------------------------------------------
(* Country_mmdb.py *)

\* the ASN script's variables at rest
AsnIdle ==
    /\ codes = <<>>
    /\ apc = "idle"
    /\ ai = 0
    /\ asn_entries = <<>>
    /\ files = <<>>
    /\ count = 0
    /\ history = <<>>

InitMmdb ==
    /\ countries \in CountryLists
    /\ pc = "import"
    /\ countries_set = {}
    /\ source = <<>>
    /\ networks_to_write = <<>>
    /\ stats = <<>>
    /\ total = 0
    /\ tree = {}
    /\ idx = 0
    /\ out_file \in {FileAbsent, FileOld}
    /\ result = "none"
    /\ exit_code = -1
    /\ log = {}

\* generate_mmdb: one of the three packages cannot be imported
ImportError ==
    /\ pc = "import"
    /\ log' = log \cup {<<"error", "ImportError", 0>>}
    /\ result' = "False"
    /\ pc' = "returned"
    /\ UNCHANGED <<countries, countries_set, source, networks_to_write, stats,
                   total, tree, idx, out_file, exit_code>>

ImportOk ==
    /\ pc = "import"
    /\ countries_set' = Range(countries)
    /\ pc' = "open"
    /\ UNCHANGED <<countries, source, networks_to_write, stats, total, tree,
                   idx, out_file, result, exit_code, log>>

\* maxminddb.open_database raises: the source is missing or malformed
OpenFail ==
    /\ pc = "open"
    /\ result' = "raised"
    /\ pc' = "returned"
    /\ UNCHANGED <<countries, countries_set, source, networks_to_write, stats,
                   total, tree, idx, out_file, exit_code, log>>

OpenOk ==
    /\ pc = "open"
    /\ networks_to_write' = <<>>
    /\ stats' = [c \in countries_set |-> 0]
    /\ total' = 0
    /\ pc' = "scan"
    /\ UNCHANGED <<countries, countries_set, source, tree, idx, out_file,
                   result, exit_code, log>>

\* the reader yields the leaves of the source trie in address order
NextEntries ==
    {e \in Networks \X Records :
        /\ Len(source) < MaxEntries
        /\ source # <<>> => Low(e[1]) > High(source[Len(source)][1])}

Progress(t) ==
    IF t % ProgressEvery = 0 THEN {<<"info", "progress", t>>} ELSE {}

\* loop body, `continue` branch
ScanSkip ==
    /\ pc = "scan"
    /\ \E e \in NextEntries :
        /\ NoCountry(e[2])
        /\ source' = Append(source, e)
        /\ total' = total + 1
        /\ log' = log \cup Progress(total + 1)
    /\ UNCHANGED <<countries, pc, countries_set, networks_to_write, stats, tree,
                   idx, out_file, result, exit_code>>

\* ScanKeep with the counter update left out
ScanKeep_NoCount ==
    /\ pc = "scan"
    /\ \E e \in NextEntries :
        /\ ~NoCountry(e[2])
        /\ country_code(e[2]) \in countries_set
        /\ source' = Append(source, e)
        /\ total' = total + 1
        /\ log' = log \cup Progress(total + 1)
        /\ networks_to_write' = Append(networks_to_write, <<str(e[1]), e[2]>>)
    /\ UNCHANGED <<countries, pc, countries_set, stats, tree, idx, out_file,
                   result, exit_code>>

\* loop body, country_code in countries_set
ScanKeep ==
    /\ pc = "scan"
    /\ \E e \in NextEntries :
        /\ ~NoCountry(e[2])
        /\ country_code(e[2]) \in countries_set
        /\ source' = Append(source, e)
        /\ total' = total + 1
        /\ log' = log \cup Progress(total + 1)
        /\ networks_to_write' = Append(networks_to_write, <<str(e[1]), e[2]>>)
        /\ stats' = [stats EXCEPT ![country_code(e[2])] = @ + 1]
    /\ UNCHANGED <<countries, pc, countries_set, tree, idx, out_file, result,
                   exit_code>>

\* loop body, country_code not in countries_set
ScanDrop ==
    /\ pc = "scan"
    /\ \E e \in NextEntries :
        /\ ~NoCountry(e[2])
        /\ country_code(e[2]) \notin countries_set
        /\ source' = Append(source, e)
        /\ total' = total + 1
        /\ log' = log \cup Progress(total + 1)
    /\ UNCHANGED <<countries, pc, countries_set, networks_to_write, stats, tree,
                   idx, out_file, result, exit_code>>

\* the reader raises while iterating (corrupt search tree or data section)
ScanRaise ==
    /\ pc = "scan"
    /\ result' = "raised"
    /\ pc' = "returned"
    /\ UNCHANGED <<countries, countries_set, source, networks_to_write, stats,
                   total, tree, idx, out_file, exit_code, log>>

\* the reader is exhausted: reader.close(), summary, writer = MMDBWriter(...)
ScanEnd ==
    /\ pc = "scan"
    /\ log' = log \cup {<<"info", "extracted", Len(networks_to_write)>>}
    /\ tree' = {}
    /\ idx' = 1
    /\ pc' = "insert"
    /\ UNCHANGED <<countries, countries_set, source, networks_to_write, stats,
                   total, out_file, result, exit_code>>

\* insert loop body, no exception
InsertOk ==
    /\ pc = "insert"
    /\ idx <= Len(networks_to_write)
    /\ LET network_str == networks_to_write[idx][1]
           data        == networks_to_write[idx][2]
           ip_set      == IPSet({IPNetwork(network_str)})
       IN  tree' = insert_network(tree, ip_set, data)
    /\ idx' = idx + 1
    /\ UNCHANGED <<countries, pc, countries_set, source, networks_to_write,
                   stats, total, out_file, result, exit_code, log>>

\* insert loop body, IPNetwork/IPSet/insert_network raises: `except: pass`
InsertRaise ==
    /\ pc = "insert"
    /\ idx <= Len(networks_to_write)
    /\ idx' = idx + 1
    /\ UNCHANGED <<countries, pc, countries_set, source, networks_to_write,
                   stats, total, tree, out_file, result, exit_code, log>>

\* writer.to_db_file(output_path): output_path is opened for writing
WriteOpen ==
    /\ pc = "insert"
    /\ idx > Len(networks_to_write)
    /\ out_file' = FilePartial
    /\ pc' = "write"
    /\ UNCHANGED <<countries, countries_set, source, networks_to_write, stats,
                   total, tree, idx, result, exit_code, log>>

\* ... and the write fails part-way (I/O error)
WriteFail ==
    /\ pc = "write"
    /\ result' = "raised"
    /\ pc' = "returned"
    /\ UNCHANGED <<countries, countries_set, source, networks_to_write, stats,
                   total, tree, idx, out_file, exit_code, log>>

\* ... or completes
WriteOk ==
    /\ pc = "write"
    /\ out_file' = FileComplete(tree)
    /\ pc' = "stats"
    /\ UNCHANGED <<countries, countries_set, source, networks_to_write, stats,
                   total, tree, idx, result, exit_code, log>>

\* size line, per-country statistics, return True
PrintStats ==
    /\ pc = "stats"
    /\ log' = log \cup {<<"info", "output", 0>>}
                  \cup {<<"stat", c, stats[c]>> : c \in DOMAIN stats}
    /\ result' = "True"
    /\ pc' = "returned"
    /\ UNCHANGED <<countries, countries_set, source, networks_to_write, stats,
                   total, tree, idx, out_file, exit_code>>

\* main: sys.exit(1) unless generate_mmdb returned True
MainExit ==
    /\ pc = "returned"
    /\ exit_code' = IF result = "True" THEN 0 ELSE 1
    /\ log' = IF result = "True" THEN log \cup {<<"info", "done", 0>>} ELSE log
    /\ pc' = "exited"
    /\ UNCHANGED <<countries, countries_set, source, networks_to_write, stats,
                   total, tree, idx, out_file, result>>

NextMmdb ==
    \/ ImportError \/ ImportOk \/ OpenFail \/ OpenOk
    \/ ScanSkip \/ ScanKeep \/ ScanDrop \/ ScanRaise \/ ScanEnd
    \/ InsertOk \/ InsertRaise
    \/ WriteOpen \/ WriteFail \/ WriteOk
    \/ PrintStats \/ MainExit

Init == InitMmdb /\ AsnIdle

Next == NextMmdb /\ UNCHANGED asn_vars

Spec == Init /\ [][Next]_vars

----------------------------------------------------------------------------
(* ASN_generator.py *)

COUNTRY_METADATA ==
    [c \in {"CN", "US", "JP", "HK", "SG"} |->
        CASE c = "CN" -> [display |-> "China",     file |-> "ASN.China.list"]
          [] c = "US" -> [display |-> "US",        file |-> "ASN.US.list"]
          [] c = "JP" -> [display |-> "Japan",     file |-> "ASN.Japan.list"]
          [] c = "HK" -> [display |-> "Hong Kong", file |-> "ASN.HongKong.list"]
          [] c = "SG" -> [display |-> "Singapore", file |-> "ASN.Singapore.list"]]

DEFAULT_COUNTRY_ORDER == <<"CN", "US", "JP", "HK", "SG">>

ListFiles == {COUNTRY_METADATA[c].file : c \in DOMAIN COUNTRY_METADATA}

\* the codes a caller passes
InputCodes == {"CN", "cn", "US", "XX"}

\* str.upper()
upper(c) == CASE c = "cn" -> "CN" [] OTHER -> c

CodeLists == UNION {[1..l -> InputCodes] : l \in 0..MaxCodes}

\* a row of the table: the text of td[1]/a and of td[2], when the node exists.
\* The number text is a sequence of tokens; name " " is white space only.
MkRow(hn, nt, hm, mt) ==
    [number_node |-> hn, number_text |-> nt, name_node |-> hm, name_text |-> mt]

RowShapes ==
    { MkRow(TRUE,  <<"AS", "4134">>, TRUE, "Chinanet"),
      MkRow(TRUE,  <<"AS", "4808">>, TRUE, "Unicom"),
      MkRow(FALSE, <<>>,             TRUE, "Chinanet"),
      MkRow(TRUE,  <<"AS">>,         TRUE, "Chinanet"),
      MkRow(TRUE,  <<"AS", "4134">>, TRUE, " ") }

RowLists == UNION {[1..l -> RowShapes] : l \in 0..MaxRows}

\* (text or "").replace("AS", "").strip()
asn_number(row) == SelectSeq(row.number_text, LAMBDA t : t # "AS" /\ t # " ")

\* (text or "").strip()
asn_name(row) == IF row.name_text = " " THEN "" ELSE row.name_text

RowOk(row) ==
    /\ row.number_node /\ row.name_node
    /\ asn_number(row) # <<>> /\ asn_name(row) # ""

\* fetch_country_asns: the rows that have both a number and a name
RECURSIVE ParseRows(_)
ParseRows(rows) ==
    IF rows = <<>> THEN <<>>
    ELSE LET r == Head(rows)
         IN  (IF RowOk(r) THEN << <<asn_number(r), asn_name(r)>> >> ELSE <<>>)
                 \o ParseRows(Tail(rows))

\* content of a list file: the display name of its header and its lines
OldList == [header |-> "old", lines |-> << <<"IP-ASN", <<"1">>, "Old">> >>]

\* init_file: the file is truncated and holds the header only
init_file(display_name) == [header |-> display_name, lines |-> <<>>]

\* write_asn_entries: one line per entry is appended
RECURSIVE AsnLines(_)
AsnLines(entries) ==
    IF entries = <<>> THEN <<>>
    ELSE << <<"IP-ASN", Head(entries)[1], Head(entries)[2]>> >>
             \o AsnLines(Tail(entries))

write_asn_entries(content, entries) ==
    [content EXCEPT !.lines = @ \o AsnLines(entries)]

Attempt(c, o, es) == [code |-> c, outcome |-> o, entries |-> es]

MmdbIdle ==
    /\ countries = <<>>
    /\ pc = "idle"
    /\ countries_set = {}
    /\ source = <<>>
    /\ networks_to_write = <<>>
    /\ stats = <<>>
    /\ total = 0
    /\ tree = {}
    /\ idx = 0
    /\ out_file = FileAbsent
    /\ result = "none"
    /\ exit_code = -1

InitAsn ==
    /\ codes \in CodeLists
    /\ apc = "start"
    /\ ai = 0
    /\ asn_entries = <<>>
    /\ files = [f \in ListFiles |-> OldList]
    /\ count = 0
    /\ history = <<>>
    /\ log = {}

\* codes = list(country_codes) if country_codes else DEFAULT_COUNTRY_ORDER
Start ==
    /\ apc = "start"
    /\ codes' = IF codes # <<>> THEN codes ELSE DEFAULT_COUNTRY_ORDER
    /\ ai' = 1
    /\ apc' = "loop"
    /\ UNCHANGED <<asn_entries, files, count, history, log>>

Configured(code) == upper(code) \in DOMAIN COUNTRY_METADATA

\* loop body: the code is not configured
SkipUnconfigured ==
    /\ apc = "loop"
    /\ ai <= Len(codes)
    /\ ~Configured(codes[ai])
    /\ log' = log \cup {<<"warn", codes[ai], 0>>}
    /\ history' = Append(history, Attempt(upper(codes[ai]), "skipped", <<>>))
    /\ ai' = ai + 1
    /\ UNCHANGED <<codes, apc, asn_entries, files, count>>

\* FetchRequestException with init_file called before the fetch
FetchRequestException_InitFirst ==
    /\ apc = "loop"
    /\ ai <= Len(codes)
    /\ Configured(codes[ai])
    /\ LET meta == COUNTRY_METADATA[upper(codes[ai])]
       IN  files' = [files EXCEPT ![meta.file] =
                        [header |-> meta.display, lines |-> <<>>]]
    /\ log' = log \cup {<<"error", upper(codes[ai]), 0>>}
    /\ history' = Append(history, [code |-> upper(codes[ai]),
                                   outcome |-> "failed", entries |-> <<>>])
    /\ ai' = ai + 1
    /\ UNCHANGED <<codes, apc, asn_entries, count>>

\* generate_country_asn: fetch_country_asns raises requests.RequestException,
\* caught by generate_multiple
FetchRequestException ==
    /\ apc = "loop"
    /\ ai <= Len(codes)
    /\ Configured(codes[ai])
    /\ log' = log \cup {<<"error", upper(codes[ai]), 0>>}
    /\ history' = Append(history, Attempt(upper(codes[ai]), "failed", <<>>))
    /\ ai' = ai + 1
    /\ UNCHANGED <<codes, apc, asn_entries, files, count>>

\* fetch_country_asns raises something else (the page does not parse):
\* nothing catches it
FetchRaise ==
    /\ apc = "loop"
    /\ ai <= Len(codes)
    /\ Configured(codes[ai])
    /\ apc' = "raised"
    /\ UNCHANGED <<codes, ai, asn_entries, files, count, history, log>>

\* fetch_country_asns returns
FetchOk ==
    /\ apc = "loop"
    /\ ai <= Len(codes)
    /\ Configured(codes[ai])
    /\ \E rows \in RowLists : asn_entries' = ParseRows(rows)
    /\ apc' = "fetched"
    /\ UNCHANGED <<codes, ai, files, count, history, log>>

\* `if not asn_entries`: warning, header only, return 0
NoEntries ==
    /\ apc = "fetched"
    /\ asn_entries = <<>>
    /\ LET code == upper(codes[ai])
           meta == COUNTRY_METADATA[code]
       IN  /\ log' = log \cup {<<"warn", code, 0>>}
           /\ files' = [files EXCEPT ![meta.file] = init_file(meta.display)]
           /\ history' = Append(history, Attempt(code, "written", <<>>))
    /\ count' = 0
    /\ ai' = ai + 1
    /\ apc' = "loop"
    /\ UNCHANGED <<codes, asn_entries>>

\* init_file(display, file_path) before the entries are written
InitFile ==
    /\ apc = "fetched"
    /\ asn_entries # <<>>
    /\ LET meta == COUNTRY_METADATA[upper(codes[ai])]
       IN  files' = [files EXCEPT ![meta.file] = init_file(meta.display)]
    /\ apc' = "init"
    /\ UNCHANGED <<codes, ai, asn_entries, count, history, log>>

\* count = write_asn_entries(file_path, asn_entries); return count
WriteEntries ==
    /\ apc = "init"
    /\ LET code == upper(codes[ai])
           meta == COUNTRY_METADATA[code]
           new  == write_asn_entries(files[meta.file], asn_entries)
           n    == Len(new.lines) - Len(files[meta.file].lines)
       IN  /\ files' = [files EXCEPT ![meta.file] = new]
           /\ count' = n
           /\ log' = log \cup {<<"info", code, n>>}
           /\ history' = Append(history, Attempt(code, "written", asn_entries))
    /\ ai' = ai + 1
    /\ apc' = "loop"
    /\ UNCHANGED <<codes, asn_entries>>

\* the loop is over
Finish ==
    /\ apc = "loop"
    /\ ai > Len(codes)
    /\ apc' = "done"
    /\ UNCHANGED <<codes, ai, asn_entries, files, count, history, log>>

NextAsn ==
    \/ Start \/ SkipUnconfigured \/ FetchRequestException \/ FetchRaise
    \/ FetchOk \/ NoEntries \/ InitFile \/ WriteEntries \/ Finish

InitASN == InitAsn /\ MmdbIdle

NextASN == NextAsn /\ UNCHANGED mmdb_vars

SpecASN == InitASN /\ [][NextASN]_vars

----------------------------------------------------------------------------
(* Notions the properties use *)

\* RecordFilter.keep: the record has a country code and it is in the target set
keep(data, target_set) ==
    ~data.empty /\ data.has_country /\ data.has_iso /\ data.iso \in target_set

\* the scan loop is over (the insert loop has been entered)
ScanDone == idx >= 1

\* generate_mmdb returned True: the output database is written
Succeeded == result = "True"

Finished == pc \in {"returned", "exited"}

\* the entry of the written database a source entry becomes
Written(e) == <<e[1], e[2]>>

InList(e) == \E i \in 1..Len(networks_to_write) :
                 networks_to_write[i] = <<str(e[1]), e[2]>>

SourceEntries == Range(source)

RECURSIVE SumOver(_, _)
SumOver(f, S) ==
    IF S = {} THEN 0
    ELSE LET k == CHOOSE x \in S : TRUE IN f[k] + SumOver(f, S \ {k})

----------------------------------------------------------------------------
(* C1  Filter correctness: a source entry is retained for writing, and is   *)
(* an entry of the written output, if and only if its record's country is   *)
(* a member of the target set.                                              *)
FilterCorrect ==
    /\ ScanDone =>
         \A e \in SourceEntries : InList(e) <=> keep(e[2], countries_set)
    /\ Succeeded =>
         \A e \in SourceEntries :
             Written(e) \in out_file.db <=> keep(e[2], countries_set)

ZeroMatchesWarn ==
    (ScanDone /\ networks_to_write = <<>>) =>
        /\ (Finished /\ ~Succeeded) => out_file.state = "partial"
        /\ Succeeded =>
             /\ out_file.state = "complete"
             /\ \A a \in Addresses : Lookup(out_file.db, a) = NoData
             /\ \A k \in countries_set :
                    \E m \in log : m[1] = "warn" /\ m[2] = k
        /\ (pc = "exited" /\ Succeeded) => exit_code = 0

(* C4  Per-key counts are exact: once the scan is over every target key has *)
(* a count, the count of key k is the number of retained entries whose      *)
(* country code is k, the counts add up to len(networks_to_write), and the  *)
(* statistics printed on success are these counts.                          *)
CountsExact ==
    ScanDone =>
        /\ DOMAIN stats = countries_set
        /\ \A k \in countries_set :
             /\ stats[k] = Cardinality({i \in 1..Len(networks_to_write) :
                               country_code(networks_to_write[i][2]) = k})
             /\ stats[k] = Cardinality({i \in 1..Len(source) :
                               /\ ~NoCountry(source[i][2])
                               /\ country_code(source[i][2]) = k})
             /\ Succeeded => \A m \in log :
                               (m[1] = "stat" /\ m[2] = k) => m[3] = stats[k]
             /\ Succeeded => <<"stat", k, stats[k]>> \in log
        /\ SumOver(stats, countries_set) = Len(networks_to_write)

\* two keys, one with a retained entry and one with none, reported after a
\* scan that also dropped an entry
CountsWitness ==
    /\ Succeeded
    /\ \E k \in countries_set : stats[k] >= 1
    /\ \E k \in countries_set : stats[k] = 0
    /\ Len(source) > Len(networks_to_write)

(* C5  No failure is silently swallowed: a run that reports success (True,  *)
(* exit status 0) has every retained entry in the writer and in the output. *)
NothingSwallowed ==
    /\ Succeeded =>
         \A i \in 1..Len(networks_to_write) :
             <<CidrBits(IPNetwork(networks_to_write[i][1])),
               networks_to_write[i][2]>> \in out_file.db
    /\ exit_code = 0 => Cardinality(tree) = Len(networks_to_write)

(* C6  No partial output is ever visible: after a run that ended in a fatal *)
(* error the output path holds no partially written database.               *)
NoPartialOutput ==
    (Finished /\ ~Succeeded) => out_file.state # "partial"

(* C8  Adjacent equal-valued networks are coalesced: the written output     *)
(* never holds the two halves of one parent network with identical records. *)
HalvesCoalesced ==
    Succeeded =>
        \A e \in out_file.db : \A f \in out_file.db :
            ~(Len(e[1]) = Len(f[1]) /\ f[1] = Sibling(e[1]) /\ e[2] = f[2])

(* C9  A record with an unknown or missing country is never kept: whatever  *)
(* the target set, an entry whose record is empty, has no country key or    *)
(* has a country without a code is not retained and changes no count.       *)
UnknownNeverKept ==
    pc # "import" /\ pc # "open" =>
        /\ \A i \in 1..Len(networks_to_write) : networks_to_write[i][2].has_iso
        /\ \A k \in DOMAIN stats :
               stats[k] = Cardinality({i \in 1..Len(source) :
                              source[i][2].has_iso /\ source[i][2].iso = k})

----------------------------------------------------------------------------
(* C10  Failure isolation in generate_multiple *)

FileOf(code) == COUNTRY_METADATA[code].file

\* what a list file must hold after the attempts h: the result of the last
\* attempt that fetched its country, or the old content
ExpectedFile(f, h) ==
    LET done == {i \in 1..Len(h) : h[i].outcome = "written" /\ FileOf(h[i].code) = f}
    IN  IF done = {} THEN OldList
        ELSE LET last == CHOOSE i \in done : \A j \in done : j <= i
             IN  [header |-> COUNTRY_METADATA[h[last].code].display,
                  lines  |-> [j \in 1..Len(h[last].entries) |->
                                 <<"IP-ASN", h[last].entries[j][1],
                                   h[last].entries[j][2]>>]]

IsolationState ==
    /\ apc \in {"loop", "done"} =>
         /\ \A f \in ListFiles : files[f] = ExpectedFile(f, history)
         /\ (history # <<>> /\ history[Len(history)].outcome = "written") =>
                count = Len(history[Len(history)].entries)
    /\ apc # "start" =>
         /\ Len(history) = ai - 1
         /\ \A i \in 1..Len(history) :
              /\ history[i].code = upper(codes[i])
              /\ history[i].outcome = "skipped" <=> ~Configured(codes[i])
    /\ apc = "done" => Len(history) = Len(codes)

\* a step that ends an iteration by a request failure changes no file and
\* goes on with the next code
IsolationStep ==
    (/\ Len(history') = Len(history) + 1
     /\ history'[Len(history')].outcome = "failed")
        => (files' = files /\ apc' = "loop" /\ ai' = ai + 1 /\ count' = count)

(* C10  An unconfigured code is skipped; a request failure leaves the       *)
(* country's file unchanged and the loop goes on to every later code; a     *)
(* country that fetched has its file rewritten as header plus one line per  *)
(* fetched entry, and the returned count is the number of lines appended.   *)
FailureIsolated == []IsolationState /\ [][IsolationStep]_vars

\* a request failure followed by a later country that was written
IsolationWitness ==
    /\ apc = "done"
    /\ \E i \in 1..Len(history) : \E j \in 1..Len(history) :
          /\ i < j
          /\ history[i].outcome = "failed"
          /\ history[j].outcome = "written"
          /\ history[j].entries # <<>>
          /\ files[FileOf(history[i].code)] = OldList
          /\ Len(files[FileOf(history[j].code)].lines) = count

====
